---- MODULE Spec2Model ----
(***************************************************************************)
(* Model of the knowledge-graph memory server, src/src/memory/index.ts:     *)
(* the JSON-lines record codec (loadGraph / saveGraph) and the nine         *)
(* operations of KnowledgeGraphManager.                                     *)
(*                                                                          *)
(* Strings are sequences of one-character strings, so that toLowerCase and  *)
(* includes are computed, not assumed.  The backing file is a record        *)
(* [exists, lines]: lines is the result of splitting the file's text at     *)
(* "\n" (so the empty text is one blank line, as in JavaScript).             *)
(***************************************************************************)
EXTENDS Integers, Sequences, FiniteSets, TLC

VARIABLES file, last, calls, base, codec

vars == <<file, last, calls, base, codec>>

----------------------------------------------------------------------------
(* Bounds of the model                                                      *)

\* records plus observations in the stored graph
MaxSize == 3
\* items in the argument of one call
MaxBatch == 2
\* observation strings in the argument of one call
MaxStrings == 2
\* lines of a file written by hand
MaxLines == 2
\* items in the argument of a call that overlaps another
MaxOverlapBatch == 1

----------------------------------------------------------------------------
(* Input universes                                                          *)

Names == { <<"a">>, <<"A">> }
EntityTypes == { <<"T">> }
RelationTypes == { <<"r">> }
RelationTargets == { <<"a">> }
ObservationStrings == { <<"x", "Y">> }
Queries == { <<"X">>, <<"y">>, <<"A">>, <<"t">>, <<"y", "x">> }

SeqsUpTo(S, n) == UNION { [1..k -> S] : k \in 0..n }

ContentLists == SeqsUpTo(ObservationStrings, MaxStrings)

\* interface Entity
Entity == [name : Names, entityType : EntityTypes, observations : ContentLists]

\* interface Relation
Relation == [from : Names, to : RelationTargets, relationType : RelationTypes]

\* { entityName, contents } of addObservations, { entityName, observations }
\* of deleteObservations
ObservationItems == [entityName : Names, contents : ContentLists]
DeletionItems == [entityName : Names, observations : ContentLists]

\* the strings in the field observations (contents) of a sequence of records
RECURSIVE CountObservations(_)
CountObservations(entities) ==
    IF entities = <<>> THEN 0
    ELSE Len(Head(entities).observations) + CountObservations(Tail(entities))

RECURSIVE CountContents(_)
CountContents(observations) ==
    IF observations = <<>> THEN 0
    ELSE Len(Head(observations).contents) + CountContents(Tail(observations))

EntityBatches ==
    { b \in SeqsUpTo(Entity, MaxBatch) : CountObservations(b) <= MaxStrings }
RelationBatches == SeqsUpTo(Relation, MaxBatch)
NameLists == SeqsUpTo(Names, MaxBatch)
ObservationBatches ==
    { b \in SeqsUpTo(ObservationItems, MaxBatch) : CountContents(b) <= MaxStrings }
DeletionBatches ==
    { b \in SeqsUpTo(DeletionItems, MaxBatch) : CountObservations(b) <= MaxStrings }

----------------------------------------------------------------------------
(* JavaScript helpers                                                       *)

\* Array.prototype.includes / Array.prototype.some(x => x === v)
includes(s, v) == \E i \in 1..Len(s) : s[i] = v

\* String.prototype.toLowerCase on the letters used here
LowerChar(c) ==
    CASE c = "A" -> "a"
      [] c = "X" -> "x"
      [] c = "Y" -> "y"
      [] c = "T" -> "t"
      [] c = "R" -> "r"
      [] OTHER -> c

toLowerCase(s) == [i \in 1..Len(s) |-> LowerChar(s[i])]

\* String.prototype.includes: q occurs in s as a contiguous substring
strIncludes(s, q) ==
    \E k \in 0..(Len(s) - Len(q)) : \A i \in 1..Len(q) : s[k + i] = q[i]

\* Array.prototype.find, as the index of the first match (0 when none)
findIndex(entities, name) ==
    IF \E i \in 1..Len(entities) : entities[i].name = name
    THEN CHOOSE i \in 1..Len(entities) :
           /\ entities[i].name = name
           /\ \A j \in 1..(i - 1) : entities[j].name # name
    ELSE 0

----------------------------------------------------------------------------
(* Record codec                                                             *)

\* One line of the file: a blank (whitespace-only) line, a line that is not
\* JSON, or the text of a JSON object.
BlankLine == [text |-> "blank"]
MalformedLine == [text |-> "malformed"]
JsonLine(item) == [text |-> "json", item |-> item]

NoFile == [exists |-> FALSE, lines |-> <<>>]

EmptyGraph == [entities |-> <<>>, relations |-> <<>>]

\* { type: "entity", ...e } : the spread of e overrides an earlier key
stringifyEntity(e) ==
    JsonLine(IF "type" \in DOMAIN e
             THEN e
             ELSE [type |-> "entity", name |-> e.name,
                   entityType |-> e.entityType, observations |-> e.observations])

\* { type: "relation", ...r }
stringifyRelation(r) ==
    JsonLine(IF "type" \in DOMAIN r
             THEN r
             ELSE [type |-> "relation", from |-> r.from, to |-> r.to,
                   relationType |-> r.relationType])

\* saveGraph without line 69: the relation records are not written
saveGraph_EntitiesOnly(graph) ==
    [exists |-> TRUE,
     lines |-> IF graph.entities = <<>>
               THEN <<BlankLine>>
               ELSE [i \in 1..Len(graph.entities) |->
                        stringifyEntity(graph.entities[i])]]

\* lines.join("\n") followed by the split of the reader: no lines give the
\* empty text, which is one blank line
joinLines(lines) == IF lines = <<>> THEN <<BlankLine>> ELSE lines

\* saveGraph: entity records, then relation records, written over the file
saveGraph(graph) ==
    [exists |-> TRUE,
     lines |-> joinLines(
        [i \in 1..Len(graph.entities) |-> stringifyEntity(graph.entities[i])]
        \o [i \in 1..Len(graph.relations) |-> stringifyRelation(graph.relations[i])])]

\* data.split("\n").filter(line => line.trim() !== "")
nonBlank(lines) == SelectSeq(lines, LAMBDA line : line.text # "blank")

\* the parsed items of the type "entity" / "relation", in file order; the
\* loaded object is the parsed item itself (it keeps its "type" key)
itemsOfType(lines, t) ==
    LET sel == SelectSeq(lines, LAMBDA line : line.item.type = t)
    IN  [i \in 1..Len(sel) |-> sel[i].item]

\* loadGraph with the parse of each line guarded: a line that does not parse
\* is skipped
loadGraph_SkipMalformed(f) ==
    IF ~f.exists
    THEN [err |-> "none", graph |-> EmptyGraph]
    ELSE LET lines == SelectSeq(f.lines, LAMBDA line : line.text = "json")
         IN  [err |-> "none",
              graph |-> [entities |-> itemsOfType(lines, "entity"),
                         relations |-> itemsOfType(lines, "relation")]]

\* loadGraph without the ENOENT branch of the catch: the error of readFile
\* is rethrown
loadGraph_ThrowsOnMissing(f) ==
    IF ~f.exists
    THEN [err |-> "ENOENT", graph |-> EmptyGraph]
    ELSE LET lines == nonBlank(f.lines)
         IN  IF \E i \in 1..Len(lines) : lines[i].text = "malformed"
             THEN [err |-> "SyntaxError", graph |-> EmptyGraph]
             ELSE [err |-> "none",
                   graph |-> [entities |-> itemsOfType(lines, "entity"),
                              relations |-> itemsOfType(lines, "relation")]]

\* loadGraph: ENOENT gives the empty graph, a line that does not parse throws
loadGraph(f) ==
    IF ~f.exists
    THEN [err |-> "none", graph |-> EmptyGraph]
    ELSE LET lines == nonBlank(f.lines)
         IN  IF \E i \in 1..Len(lines) : lines[i].text = "malformed"
             THEN [err |-> "SyntaxError", graph |-> EmptyGraph]
             ELSE [err |-> "none",
                   graph |-> [entities |-> itemsOfType(lines, "entity"),
                              relations |-> itemsOfType(lines, "relation")]]

\* outcome of one call: the file afterwards, the error thrown, the value returned
Throw(f, e) == [file |-> f, err |-> e, result |-> <<>>]
Return(f, r) == [file |-> f, err |-> "none", result |-> r]

----------------------------------------------------------------------------
(* The operations of KnowledgeGraphManager.  Each <op>Step is the           *)
(* synchronous part between the load and the save; each <op> is the whole   *)
(* method: load, step, save.                                                *)

\* createEntities with the existing entity compared as an object, not by
\* name: a stored entity never equals a candidate
createEntitiesStep_CompareObjects(graph, entities) ==
    LET newEntities ==
          SelectSeq(entities,
                    LAMBDA e : ~\E i \in 1..Len(graph.entities) :
                                   graph.entities[i] = e)
    IN  [graph |-> [graph EXCEPT !.entities = @ \o newEntities],
         err |-> "none",
         result |-> newEntities]

\* lines 82-83: the filter looks at the loaded graph only
createEntitiesStep(graph, entities) ==
    LET newEntities ==
          SelectSeq(entities,
                    LAMBDA e : ~\E i \in 1..Len(graph.entities) :
                                   graph.entities[i].name = e.name)
    IN  [graph |-> [graph EXCEPT !.entities = @ \o newEntities],
         err |-> "none",
         result |-> newEntities]

\* createEntities writing back, after the graph, the lines whose type it did
\* not recognise
createEntities_KeepOtherLines(f, entities) ==
    LET l == loadGraph(f)
    IN  IF l.err # "none" THEN Throw(f, l.err)
        ELSE LET m == createEntitiesStep(l.graph, entities)
                 others == SelectSeq(nonBlank(f.lines),
                               LAMBDA line : line.item.type \notin {"entity", "relation"})
             IN  Return([saveGraph(m.graph) EXCEPT !.lines = @ \o others], m.result)

\* createEntities writing the file only when a candidate was new
createEntities_SaveIfNew(f, entities) ==
    LET l == loadGraph(f)
    IN  IF l.err # "none" THEN Throw(f, l.err)
        ELSE LET m == createEntitiesStep(l.graph, entities)
             IN  Return(IF m.result = <<>> THEN f ELSE saveGraph(m.graph), m.result)

createEntities(f, entities) ==
    LET l == loadGraph(f)
    IN  IF l.err # "none" THEN Throw(f, l.err)
        ELSE LET m == createEntitiesStep(l.graph, entities)
             IN  Return(saveGraph(m.graph), m.result)

sameTriple(r, s) ==
    /\ r.from = s.from
    /\ r.to = s.to
    /\ r.relationType = s.relationType

\* createRelations keeping only the candidates between existing entities
createRelationsStep_CheckEndpoints(graph, relations) ==
    LET newRelations ==
          SelectSeq(relations,
                    LAMBDA r : /\ ~\E i \in 1..Len(graph.relations) :
                                     sameTriple(graph.relations[i], r)
                               /\ \E i \in 1..Len(graph.entities) :
                                     graph.entities[i].name = r.from
                               /\ \E i \in 1..Len(graph.entities) :
                                     graph.entities[i].name = r.to)
    IN  [graph |-> [graph EXCEPT !.relations = @ \o newRelations],
         err |-> "none",
         result |-> newRelations]

\* createRelations with unshift for push: the new relations come first
createRelationsStep_Prepend(graph, relations) ==
    LET newRelations ==
          SelectSeq(relations,
                    LAMBDA r : ~\E i \in 1..Len(graph.relations) :
                                   sameTriple(graph.relations[i], r))
    IN  [graph |-> [graph EXCEPT !.relations = newRelations \o @],
         err |-> "none",
         result |-> newRelations]

\* lines 92-97
createRelationsStep(graph, relations) ==
    LET newRelations ==
          SelectSeq(relations,
                    LAMBDA r : ~\E i \in 1..Len(graph.relations) :
                                   sameTriple(graph.relations[i], r))
    IN  [graph |-> [graph EXCEPT !.relations = @ \o newRelations],
         err |-> "none",
         result |-> newRelations]

createRelations(f, relations) ==
    LET l == loadGraph(f)
    IN  IF l.err # "none" THEN Throw(f, l.err)
        ELSE LET m == createRelationsStep(l.graph, relations)
             IN  Return(saveGraph(m.graph), m.result)

\* addObservations with unshift for push: the new observations are put in
\* front of the entity's list
RECURSIVE addObservationsFrom_Unshift(_, _, _, _)
addObservationsFrom_Unshift(graph, observations, k, results) ==
    IF k > Len(observations)
    THEN [graph |-> graph, err |-> "none", result |-> results]
    ELSE LET o == observations[k]
             idx == findIndex(graph.entities, o.entityName)
         IN  IF idx = 0
             THEN [graph |-> graph, err |-> "NotFound", result |-> results]
             ELSE LET entity == graph.entities[idx]
                      newObservations ==
                        SelectSeq(o.contents,
                                  LAMBDA content : ~includes(entity.observations, content))
                  IN  addObservationsFrom_Unshift(
                        [graph EXCEPT !.entities[idx].observations = newObservations \o @],
                        observations, k + 1,
                        Append(results, [entityName |-> o.entityName,
                                         addedObservations |-> newObservations]))

\* lines 106-115: observations.map, item k onwards; the entity found is
\* mutated in place, a missing entity throws out of the map
RECURSIVE addObservationsFrom(_, _, _, _)
addObservationsFrom(graph, observations, k, results) ==
    IF k > Len(observations)
    THEN [graph |-> graph, err |-> "none", result |-> results]
    ELSE LET o == observations[k]
             idx == findIndex(graph.entities, o.entityName)
         IN  IF idx = 0
             THEN [graph |-> graph, err |-> "NotFound", result |-> results]
             ELSE LET entity == graph.entities[idx]
                      newObservations ==
                        SelectSeq(o.contents,
                                  LAMBDA content : ~includes(entity.observations, content))
                  IN  addObservationsFrom(
                        [graph EXCEPT !.entities[idx].observations = @ \o newObservations],
                        observations, k + 1,
                        Append(results, [entityName |-> o.entityName,
                                         addedObservations |-> newObservations]))

addObservationsStep(graph, observations) ==
    addObservationsFrom(graph, observations, 1, <<>>)

\* addObservations with the save in a finally block: the graph as mutated
\* up to the throw is written
addObservations_SaveOnThrow(f, observations) ==
    LET l == loadGraph(f)
    IN  IF l.err # "none" THEN Throw(f, l.err)
        ELSE LET m == addObservationsStep(l.graph, observations)
             IN  IF m.err # "none" THEN Throw(saveGraph(m.graph), m.err)
                 ELSE Return(saveGraph(m.graph), m.result)

\* lines 105-118: the throw leaves the method before saveGraph
addObservations(f, observations) ==
    LET l == loadGraph(f)
    IN  IF l.err # "none" THEN Throw(f, l.err)
        ELSE LET m == addObservationsStep(l.graph, observations)
             IN  IF m.err # "none" THEN Throw(f, m.err)
                 ELSE Return(saveGraph(m.graph), m.result)

\* deleteEntities with the cascade on the from side only
deleteEntitiesStep_FromOnly(graph, entityNames) ==
    [graph |-> [entities |-> SelectSeq(graph.entities,
                                LAMBDA e : ~includes(entityNames, e.name)),
                relations |-> SelectSeq(graph.relations,
                                LAMBDA r : ~includes(entityNames, r.from))],
     err |-> "none",
     result |-> <<>>]

\* lines 124-125
deleteEntitiesStep(graph, entityNames) ==
    [graph |-> [entities |-> SelectSeq(graph.entities,
                                LAMBDA e : ~includes(entityNames, e.name)),
                relations |-> SelectSeq(graph.relations,
                                LAMBDA r : /\ ~includes(entityNames, r.from)
                                           /\ ~includes(entityNames, r.to))],
     err |-> "none",
     result |-> <<>>]

deleteEntities(f, entityNames) ==
    LET l == loadGraph(f)
    IN  IF l.err # "none" THEN Throw(f, l.err)
        ELSE LET m == deleteEntitiesStep(l.graph, entityNames)
             IN  Return(saveGraph(m.graph), m.result)

\* lines 133-140: deletions.forEach, item k onwards; a missing entity is
\* logged and skipped
RECURSIVE deleteObservationsFrom(_, _, _)
deleteObservationsFrom(graph, deletions, k) ==
    IF k > Len(deletions)
    THEN graph
    ELSE LET d == deletions[k]
             idx == findIndex(graph.entities, d.entityName)
         IN  IF idx = 0
             THEN deleteObservationsFrom(graph, deletions, k + 1)
             ELSE deleteObservationsFrom(
                    [graph EXCEPT !.entities[idx].observations =
                        SelectSeq(@, LAMBDA o : ~includes(d.observations, o))],
                    deletions, k + 1)

\* deleteObservations with a missing entity ending the forEach: the items
\* after it are not processed
RECURSIVE deleteObservationsUntilMissing(_, _, _)
deleteObservationsUntilMissing(graph, deletions, k) ==
    IF k > Len(deletions)
    THEN graph
    ELSE LET d == deletions[k]
             idx == findIndex(graph.entities, d.entityName)
         IN  IF idx = 0
             THEN graph
             ELSE deleteObservationsUntilMissing(
                    [graph EXCEPT !.entities[idx].observations =
                        SelectSeq(@, LAMBDA o : ~includes(d.observations, o))],
                    deletions, k + 1)

deleteObservationsStep_StopAtMissing(graph, deletions) ==
    [graph |-> deleteObservationsUntilMissing(graph, deletions, 1),
     err |-> "none",
     result |-> <<>>]

deleteObservationsStep(graph, deletions) ==
    [graph |-> deleteObservationsFrom(graph, deletions, 1),
     err |-> "none",
     result |-> <<>>]

deleteObservations(f, deletions) ==
    LET l == loadGraph(f)
    IN  IF l.err # "none" THEN Throw(f, l.err)
        ELSE LET m == deleteObservationsStep(l.graph, deletions)
             IN  Return(saveGraph(m.graph), m.result)

\* deleteRelations comparing the three fields without regard to case
deleteRelationsStep_IgnoreCase(graph, relations) ==
    [graph |-> [graph EXCEPT !.relations =
                  SelectSeq(@, LAMBDA r : ~\E i \in 1..Len(relations) :
                       /\ toLowerCase(r.from) = toLowerCase(relations[i].from)
                       /\ toLowerCase(r.to) = toLowerCase(relations[i].to)
                       /\ toLowerCase(r.relationType) =
                             toLowerCase(relations[i].relationType))],
     err |-> "none",
     result |-> <<>>]

\* lines 148-152
deleteRelationsStep(graph, relations) ==
    [graph |-> [graph EXCEPT !.relations =
                  SelectSeq(@, LAMBDA r : ~\E i \in 1..Len(relations) :
                                               sameTriple(r, relations[i]))],
     err |-> "none",
     result |-> <<>>]

deleteRelations(f, relations) ==
    LET l == loadGraph(f)
    IN  IF l.err # "none" THEN Throw(f, l.err)
        ELSE LET m == deleteRelationsStep(l.graph, relations)
             IN  Return(saveGraph(m.graph), m.result)

\* readGraph ending like the mutating methods, with a save of the graph
readGraph_SavesGraph(f) ==
    LET l == loadGraph(f)
    IN  IF l.err # "none" THEN Throw(f, l.err)
        ELSE Return(saveGraph(l.graph), l.graph)

\* lines 157-162: no save
readGraph(f) ==
    LET l == loadGraph(f)
    IN  IF l.err # "none" THEN Throw(f, l.err)
        ELSE Return(f, l.graph)

\* new Set(filteredEntities.map(e => e.name))
namesOf(entities) == { entities[i].name : i \in 1..Len(entities) }

\* the relation filter with || for &&
filterRelations_EitherEndpoint(relations, filteredEntityNames) ==
    SelectSeq(relations, LAMBDA r : \/ r.from \in filteredEntityNames
                                    \/ r.to \in filteredEntityNames)

\* lines 180-182 and 204-206
filterRelations(relations, filteredEntityNames) ==
    SelectSeq(relations, LAMBDA r : /\ r.from \in filteredEntityNames
                                    /\ r.to \in filteredEntityNames)

\* the match with the query taken as typed: only the stored text is
\* lower-cased
matchesQuery_QueryAsTyped(e, query) ==
    \/ strIncludes(toLowerCase(e.name), query)
    \/ strIncludes(toLowerCase(e.entityType), query)
    \/ \E i \in 1..Len(e.observations) :
          strIncludes(toLowerCase(e.observations[i]), query)

\* lines 170-174
matchesQuery(e, query) ==
    \/ strIncludes(toLowerCase(e.name), toLowerCase(query))
    \/ strIncludes(toLowerCase(e.entityType), toLowerCase(query))
    \/ \E i \in 1..Len(e.observations) :
          strIncludes(toLowerCase(e.observations[i]), toLowerCase(query))

\* lines 165-191: no save
searchNodes(f, query) ==
    LET l == loadGraph(f)
    IN  IF l.err # "none" THEN Throw(f, l.err)
        ELSE LET filteredEntities ==
                   SelectSeq(l.graph.entities, LAMBDA e : matchesQuery(e, query))
             IN  Return(f, [entities |-> filteredEntities,
                            relations |-> filterRelations(l.graph.relations,
                                                          namesOf(filteredEntities))])

\* lines 193-215: no save
openNodes(f, names) ==
    LET l == loadGraph(f)
    IN  IF l.err # "none" THEN Throw(f, l.err)
        ELSE LET filteredEntities ==
                   SelectSeq(l.graph.entities, LAMBDA e : includes(names, e.name))
             IN  Return(f, [entities |-> filteredEntities,
                            relations |-> filterRelations(l.graph.relations,
                                                          namesOf(filteredEntities))])

----------------------------------------------------------------------------
(* Sequential execution: the request handler runs one call to completion    *)
(* and returns its response before the next request is taken.               *)

\* no request being answered
NoAgain == [is |-> FALSE, result |-> <<>>, pre |-> NoFile]

NoCall == [op |-> "none", args |-> <<>>, pre |-> NoFile, err |-> "none",
           result |-> <<>>, again |-> NoAgain]

\* the guard that keeps the model finite
GraphSize(graph) ==
    Len(graph.entities) + CountObservations(graph.entities) + Len(graph.relations)

WithinBounds(f) == GraphSize(loadGraph(f).graph) <= MaxSize

\* a request arrives and its case of the switch runs the operation: the file
\* is as the operation leaves it, last is what the handler holds (the
\* arguments, the file it started from, the error or the result)
Do(op, args, out, again) ==
    /\ last.op = "none"
    /\ WithinBounds(out.file)
    /\ file' = out.file
    /\ last' = [op |-> op, args |-> args, pre |-> file, err |-> out.err,
                result |-> out.result, again |-> again]
    /\ UNCHANGED <<calls, base, codec>>

CreateEntities ==
    \E entities \in EntityBatches :
        Do("createEntities", entities, createEntities(file, entities), NoAgain)

CreateRelations ==
    \E relations \in RelationBatches :
        Do("createRelations", relations, createRelations(file, relations), NoAgain)

AddObservations ==
    \E observations \in ObservationBatches :
        Do("addObservations", observations, addObservations(file, observations), NoAgain)

DeleteEntities ==
    \E entityNames \in NameLists :
        Do("deleteEntities", entityNames, deleteEntities(file, entityNames), NoAgain)

DeleteObservations ==
    \E deletions \in DeletionBatches :
        Do("deleteObservations", deletions, deleteObservations(file, deletions), NoAgain)

DeleteRelations ==
    \E relations \in RelationBatches :
        Do("deleteRelations", relations, deleteRelations(file, relations), NoAgain)

ReadGraph == Do("readGraph", <<>>, readGraph(file), NoAgain)

SearchNodes ==
    \E query \in Queries :
        Do("searchNodes", query, searchNodes(file, query), NoAgain)

OpenNodes ==
    \E names \in NameLists :
        Do("openNodes", names, openNodes(file, names), NoAgain)

\* the response is returned to the client; the handler's locals are gone
Respond ==
    /\ last.op # "none"
    /\ last' = NoCall
    /\ UNCHANGED <<file, calls, base, codec>>

\* the client sends the create_entities request it has just been answered
\* once more, with identical arguments
CreateEntitiesAgain ==
    /\ last.op = "createEntities"
    /\ last.err = "none"
    /\ ~last.again.is
    /\ LET out == createEntities(file, last.args)
       IN  /\ file' = out.file
           /\ last' = [op |-> "createEntities", args |-> last.args, pre |-> file,
                       err |-> out.err, result |-> out.result,
                       again |-> [is |-> TRUE, result |-> last.result,
                                  pre |-> last.pre]]
    /\ UNCHANGED <<calls, base, codec>>

\* the two requests that may be in progress at once
Clients == {1, 2}

IdleCall == [pc |-> "idle", op |-> "none", args |-> <<>>, graph |-> EmptyGraph]

CodecOff == [pc |-> "off", g |-> EmptyGraph, loaded |-> EmptyGraph]

Init ==
    /\ file = NoFile
    /\ last = NoCall
    /\ calls = [c \in Clients |-> IdleCall]
    /\ base = NoFile
    /\ codec = CodecOff

Next ==
    \/ CreateEntities
    \/ CreateRelations
    \/ AddObservations
    \/ DeleteEntities
    \/ DeleteObservations
    \/ DeleteRelations
    \/ ReadGraph
    \/ SearchNodes
    \/ OpenNodes
    \/ CreateEntitiesAgain
    \/ Respond

Spec == Init /\ [][Next]_vars

----------------------------------------------------------------------------
(* Observations of more than one text: create_entities and add_observations *)
(* with two different strings, so that the order of an entity's list shows  *)

TextStrings == { <<"x">>, <<"z">> }
TextLists == SeqsUpTo(TextStrings, MaxStrings)
TextEntities == [name : Names, entityType : EntityTypes, observations : TextLists]
TextItems == [entityName : Names, contents : TextLists]
TextBatches ==
    { b \in SeqsUpTo(TextItems, MaxBatch) : CountContents(b) <= MaxStrings }

CreateTextEntity ==
    \E e \in TextEntities :
        Do("createEntities", <<e>>, createEntities(file, <<e>>), NoAgain)

AddTextObservations ==
    \E observations \in TextBatches :
        Do("addObservations", observations, addObservations(file, observations), NoAgain)

TextDeletions == [entityName : Names, observations : TextLists]
TextDeletionBatches ==
    { b \in SeqsUpTo(TextDeletions, MaxBatch) : CountObservations(b) <= MaxStrings }

DeleteTextObservations ==
    \E deletions \in TextDeletionBatches :
        Do("deleteObservations", deletions, deleteObservations(file, deletions), NoAgain)

NextText ==
    \/ CreateTextEntity
    \/ AddTextObservations
    \/ Respond

SpecText == Init /\ [][NextText]_vars

\* the narrow deletes, on graphs of entities with such observations and of
\* relations
NextDelete ==
    \/ CreateTextEntity
    \/ CreateRelations
    \/ DeleteTextObservations
    \/ DeleteRelations
    \/ Respond

SpecDelete == Init /\ [][NextDelete]_vars

----------------------------------------------------------------------------
(* A file written by hand: the same operations, started from a file that    *)
(* may hold blank lines, lines that are not JSON and records of other types *)

ExternalLines ==
    { BlankLine,
      MalformedLine,
      JsonLine([type |-> "entity", name |-> <<"a">>, entityType |-> <<"T">>,
                observations |-> <<>>]),
      JsonLine([type |-> "relation", from |-> <<"a">>, to |-> <<"A">>,
                relationType |-> <<"r">>]),
      JsonLine([type |-> "note"]) }

ExternalFiles ==
    { [exists |-> TRUE, lines |-> ls] :
         ls \in SeqsUpTo(ExternalLines, MaxLines) \ { <<>> } }

InitFile ==
    /\ file \in ExternalFiles \cup { NoFile }
    /\ last = NoCall
    /\ calls = [c \in Clients |-> IdleCall]
    /\ base = NoFile
    /\ codec = CodecOff

SpecFile == InitFile /\ [][Next]_vars

----------------------------------------------------------------------------
(* Overlapping calls.  A method suspends at the await of readFile and at    *)
(* the await of writeFile; what lies between the two runs without           *)
(* interruption.  StartCall is a call up to its write being issued,         *)
(* FinishSave is the write taking effect.  base is the file as it was when  *)
(* the first of the calls in progress loaded it.                            *)

\* candidates without observations: the overlap is about whole records
OverlapEntityBatches ==
    SeqsUpTo({ e \in Entity : e.observations = <<>> }, MaxOverlapBatch)
OverlapNameLists == SeqsUpTo(Names, MaxOverlapBatch)

Other(c) == CHOOSE o \in Clients : o # c

StartCall(c, op, args, m) ==
    LET fresh == calls[Other(c)].pc # "loaded"
    IN  /\ \/ calls[c].pc = "idle"
           \/ calls[c].pc = "done" /\ fresh
        /\ WithinBounds(saveGraph(m.graph))
        /\ base' = IF fresh THEN file ELSE base
        /\ calls' = [calls EXCEPT
                       ![c] = [pc |-> "loaded", op |-> op, args |-> args,
                               graph |-> m.graph],
                       ![Other(c)] = IF fresh THEN IdleCall ELSE @]
        /\ UNCHANGED <<file, last, codec>>

StartCreateEntities ==
    \E c \in Clients, entities \in OverlapEntityBatches :
        StartCall(c, "createEntities", entities,
                  createEntitiesStep(loadGraph(file).graph, entities))

StartDeleteEntities ==
    \E c \in Clients, entityNames \in OverlapNameLists :
        StartCall(c, "deleteEntities", entityNames,
                  deleteEntitiesStep(loadGraph(file).graph, entityNames))

FinishSave ==
    \E c \in Clients :
        /\ calls[c].pc = "loaded"
        /\ file' = saveGraph(calls[c].graph)
        /\ calls' = [calls EXCEPT ![c].pc = "done"]
        /\ UNCHANGED <<last, base, codec>>

NextOverlap ==
    \/ StartCreateEntities
    \/ StartDeleteEntities
    \/ FinishSave

SpecOverlap == Init /\ [][NextOverlap]_vars

----------------------------------------------------------------------------
(* The codec on its own: a graph is saved, the file is loaded, and the      *)
(* loaded graph is saved again.                                             *)

Graphs ==
    { g \in [entities : SeqsUpTo(Entity, MaxSize),
             relations : SeqsUpTo(Relation, MaxSize)] : GraphSize(g) <= MaxSize }

InitCodec ==
    /\ file = NoFile
    /\ last = NoCall
    /\ calls = [c \in Clients |-> IdleCall]
    /\ base = NoFile
    /\ \E g \in Graphs : codec = [pc |-> "graph", g |-> g, loaded |-> EmptyGraph]

CodecSave ==
    /\ codec.pc = "graph"
    /\ file' = saveGraph(codec.g)
    /\ codec' = [codec EXCEPT !.pc = "saved"]
    /\ UNCHANGED <<last, calls, base>>

CodecLoad ==
    /\ codec.pc = "saved"
    /\ loadGraph(file).err = "none"
    /\ codec' = [codec EXCEPT !.pc = "loaded", !.loaded = loadGraph(file).graph]
    /\ UNCHANGED <<file, last, calls, base>>

\* the next call saves the objects the load produced
CodecSaveLoaded ==
    /\ codec.pc = "loaded"
    /\ codec.g # codec.loaded
    /\ codec' = [pc |-> "graph", g |-> codec.loaded, loaded |-> EmptyGraph]
    /\ UNCHANGED <<file, last, calls, base>>

NextCodec ==
    \/ CodecSave
    \/ CodecLoad
    \/ CodecSaveLoaded

SpecCodec == InitCodec /\ [][NextCodec]_vars

----------------------------------------------------------------------------
(* Properties of the sequential specification                               *)

\* the graph a load of the file gives
persisted == loadGraph(file).graph
before == loadGraph(last.pre).graph

NoDuplicates(s) == \A i, j \in 1..Len(s) : i # j => s[i] # s[j]

\* C1: starting from an absent store, after any sequence of operations no two
\* persisted entities have the same name.
C1_EntityNamesUnique ==
    \A i, j \in 1..Len(persisted.entities) :
        i # j => persisted.entities[i].name # persisted.entities[j].name

\* C2: starting from an absent store, after any sequence of operations no two
\* persisted relations have the same (from, to, relationType).
C2_RelationTriplesUnique ==
    \A i, j \in 1..Len(persisted.relations) :
        i # j => ~sameTriple(persisted.relations[i], persisted.relations[j])

\* some item of an addObservations batch names an entity that the loaded
\* graph does not have
NamesMissingEntity(observations, graph) ==
    \E k \in 1..Len(observations) :
        observations[k].entityName \notin namesOf(graph.entities)

\* C4: an addObservations call one of whose items names an entity missing
\* from the loaded graph fails with the not-found error and leaves the file
\* exactly as it was before the call.
C4_AddObservationsAtomic ==
    (/\ last.op = "addObservations"
     /\ NamesMissingEntity(last.args, before))
    => (/\ last.err = "NotFound"
        /\ file = last.pre)

\* the case of C4: the first item added a new observation in memory to an
\* entity that exists, a later item named a missing entity
C4_Witness ==
    /\ last.op = "addObservations"
    /\ last.err = "NotFound"
    /\ Len(last.args) = 2
    /\ last.args[1].entityName \in namesOf(before.entities)
    /\ \E c \in ObservationStrings :
          /\ includes(last.args[1].contents, c)
          /\ \A i \in 1..Len(before.entities) :
                before.entities[i].name = last.args[1].entityName
                   => ~includes(before.entities[i].observations, c)
    /\ last.args[2].entityName \notin namesOf(before.entities)
    /\ file = last.pre
    /\ file.exists

\* C5: after a successful addObservations call every entity whose observation
\* list had no duplicate before the call has none after it.
C5_AddObservationsDedup ==
    (last.op = "addObservations" /\ last.err = "none")
    => \A i \in 1..Len(before.entities) :
          NoDuplicates(before.entities[i].observations)
             => NoDuplicates(persisted.entities[i].observations)

\* C6 as stated: of two createEntities calls in succession with identical
\* candidates the first returns all the candidates, the second none, and the
\* second leaves the persisted entities as the first left them.
C6_IdempotentCreation ==
    last.again.is
    => (/\ last.again.result = last.args
        /\ last.result = <<>>
        /\ persisted.entities = before.entities)

\* C6 amended: the first call returns all the candidates when none of their
\* names was stored before it; the rest as stated.
C6_IdempotentCreationOfNew ==
    last.again.is
    => (/\ (\A k \in 1..Len(last.args) :
               last.args[k].name \notin
                   namesOf(loadGraph(last.again.pre).graph.entities))
             => last.again.result = last.args
        /\ last.result = <<>>
        /\ persisted.entities = before.entities)

\* the case of C6: a batch of two new candidates has been sent twice
C6_Witness ==
    /\ last.again.is
    /\ Len(last.args) = 2
    /\ last.again.result = last.args
    /\ last.result = <<>>
    /\ Len(persisted.entities) = 2

\* C7: after a deleteEntities call the persisted graph has no entity named in
\* the list and no relation whose from or to is in the list.
C7_CascadeOnDelete ==
    (last.op = "deleteEntities" /\ last.err = "none")
    => (/\ \A i \in 1..Len(persisted.entities) :
              ~includes(last.args, persisted.entities[i].name)
        /\ \A i \in 1..Len(persisted.relations) :
              /\ ~includes(last.args, persisted.relations[i].from)
              /\ ~includes(last.args, persisted.relations[i].to))

\* the case of C7: an entity was deleted, and with it a dangling relation
\* that only pointed to it
C7_Witness ==
    /\ last.op = "deleteEntities"
    /\ last.err = "none"
    /\ \E i \in 1..Len(before.entities) :
          includes(last.args, before.entities[i].name)
    /\ \E i \in 1..Len(before.relations) :
          /\ includes(last.args, before.relations[i].to)
          /\ ~includes(last.args, before.relations[i].from)
          /\ before.relations[i].from \notin namesOf(before.entities)
    /\ Len(persisted.relations) < Len(before.relations)

\* C8: the relations searchNodes and openNodes return are exactly the loaded
\* relations, in order, whose from and to are both names of returned entities.
C8_InducedSubgraph ==
    (last.op \in {"searchNodes", "openNodes"} /\ last.err = "none")
    => last.result.relations =
          SelectSeq(before.relations,
                    LAMBDA r :
                       /\ \E i \in 1..Len(last.result.entities) :
                             last.result.entities[i].name = r.from
                       /\ \E i \in 1..Len(last.result.entities) :
                             last.result.entities[i].name = r.to)

\* the case of C8: one relation between returned entities is returned, one
\* with a single returned endpoint is not
C8_Witness ==
    /\ last.op \in {"searchNodes", "openNodes"}
    /\ last.err = "none"
    /\ Len(last.result.entities) = 1
    /\ Len(last.result.relations) = 1
    /\ \E i \in 1..Len(before.relations) :
          LET r == before.relations[i]
          IN  (r.from \in namesOf(last.result.entities))
                 # (r.to \in namesOf(last.result.entities))

----------------------------------------------------------------------------
(* Properties of overlapping calls                                          *)

\* the file after the whole method of a call has run alone on f
RunAlone(f, call) ==
    IF call.op = "createEntities"
    THEN createEntities(f, call.args).file
    ELSE deleteEntities(f, call.args).file

\* C3: when two calls whose loads and saves may interleave have both
\* completed, the file is what running the two one after the other, in one
\* of the two orders, leaves.
C3_Linearized ==
    (\A c \in Clients : calls[c].pc = "done")
    => \E c \in Clients :
          file = RunAlone(RunAlone(base, calls[c]), calls[Other(c)])

----------------------------------------------------------------------------
(* Properties of a file written by hand                                     *)

HasMalformedLine(f) ==
    /\ f.exists
    /\ \E i \in 1..Len(f.lines) : f.lines[i] = MalformedLine

\* C9: a call that fails leaves the file exactly as it was, and every call,
\* reading or mutating, on a file with a malformed line fails with the parse
\* error.
C9_NoPartialPersistence ==
    last.op # "none"
    => (/\ last.err # "none" => file = last.pre
        /\ HasMalformedLine(last.pre) => last.err = "SyntaxError")

\* the case of C9: a mutating call on a file with a record and a malformed
\* line failed and left both lines in place
C9_Witness ==
    /\ last.op \in {"createEntities", "deleteEntities", "deleteObservations"}
    /\ Len(last.args) > 0
    /\ last.err = "SyntaxError"
    /\ Len(last.pre.lines) = 2
    /\ last.pre.lines[1].text = "json"
    /\ last.pre.lines[2] = MalformedLine
    /\ file = last.pre

----------------------------------------------------------------------------
(* Properties of the codec                                                  *)

EntityFields(e) ==
    [name |-> e.name, entityType |-> e.entityType, observations |-> e.observations]

RelationFields(r) ==
    [from |-> r.from, to |-> r.to, relationType |-> r.relationType]

\* C10: loading what saveGraph wrote for g gives the entities of g and the
\* relations of g, in order, with the same name, entityType and observations
\* and the same from, to and relationType.
C10_RoundTrip ==
    codec.pc = "loaded"
    => (/\ Len(codec.loaded.entities) = Len(codec.g.entities)
        /\ \A i \in 1..Len(codec.g.entities) :
              EntityFields(codec.loaded.entities[i]) = EntityFields(codec.g.entities[i])
        /\ Len(codec.loaded.relations) = Len(codec.g.relations)
        /\ \A i \in 1..Len(codec.g.relations) :
              RelationFields(codec.loaded.relations[i]) = RelationFields(codec.g.relations[i]))

\* the case of C10: a graph of an entity with an observation and a relation
\* has been saved and loaded
C10_Witness ==
    /\ codec.pc = "loaded"
    /\ Len(codec.g.entities) = 1
    /\ Len(codec.g.entities[1].observations) = 1
    /\ Len(codec.g.relations) = 1
    /\ Len(file.lines) = 2
    /\ codec.loaded.entities[1].observations = codec.g.entities[1].observations

\* C10, the empty graph: it is saved as the empty text and comes back
C10_WitnessEmpty ==
    /\ codec.pc = "loaded"
    /\ codec.g = EmptyGraph
    /\ file.lines = <<BlankLine>>

\* C10, a graph of relations only
C10_WitnessRelationsOnly ==
    /\ codec.pc = "loaded"
    /\ codec.g.entities = <<>>
    /\ Len(codec.g.relations) = 2
    /\ codec.loaded.relations = codec.g.relations

----------------------------------------------------------------------------
(* Properties of single calls, continued                                    *)

ReadOps == {"readGraph", "searchNodes", "openNodes"}

MutatingOps == {"createEntities", "createRelations", "addObservations",
                "deleteEntities", "deleteObservations", "deleteRelations"}

\* the outcome of the method op called with args on the file f
Outcome(op, args, f) ==
    CASE op = "createEntities" -> createEntities(f, args)
      [] op = "createRelations" -> createRelations(f, args)
      [] op = "addObservations" -> addObservations(f, args)
      [] op = "deleteEntities" -> deleteEntities(f, args)
      [] op = "deleteObservations" -> deleteObservations(f, args)
      [] op = "deleteRelations" -> deleteRelations(f, args)
      [] op = "readGraph" -> readGraph(f)
      [] op = "searchNodes" -> searchNodes(f, args)
      [] op = "openNodes" -> openNodes(f, args)

\* the file that holds the empty graph
EmptyFile == [exists |-> TRUE, lines |-> <<BlankLine>>]

\* C11: with no file, readGraph, searchNodes and openNodes return the empty
\* graph without an error, and a mutating call ends as it ends on a file
\* that holds the empty graph: the same error or result, and the same file
\* written when it succeeds.
C11_ColdStart ==
    (last.op # "none" /\ ~last.pre.exists)
    => (/\ last.op \in ReadOps
             => (last.err = "none" /\ last.result = EmptyGraph)
        /\ last.op \in MutatingOps
             => LET out == Outcome(last.op, last.args, EmptyFile)
                IN  /\ last.err = out.err
                    /\ last.result = out.result
                    /\ file = IF out.err = "none" THEN out.file ELSE last.pre)

\* the case of C11: names were opened while there was no file
C11_Witness ==
    /\ last.op = "openNodes"
    /\ Len(last.args) > 0
    /\ ~last.pre.exists
    /\ last.err = "none"
    /\ last.result = EmptyGraph

\* C11, a mutating call with no file: the candidates are all created
C11_WitnessMutating ==
    /\ last.op = "createEntities"
    /\ Len(last.args) = 2
    /\ ~last.pre.exists
    /\ last.result = last.args
    /\ file.exists

\* C12: readGraph, searchNodes and openNodes leave the file as it was, an
\* absent file absent, and readGraph returns the graph the load gives.
C12_ReadsArePure ==
    last.op \in ReadOps
    => (/\ file = last.pre
        /\ (last.op = "readGraph" /\ last.err = "none")
             => (/\ Len(last.result.entities) + Len(last.result.relations)
                      = Cardinality({ i \in 1..Len(last.pre.lines) :
                                        /\ last.pre.lines[i].text = "json"
                                        /\ last.pre.lines[i].item.type
                                              \in {"entity", "relation"} })
                 /\ last.result = before))

\* the case of C12: a file with a record of another type and an entity was
\* read and is as it was
C12_Witness ==
    /\ last.op = "readGraph"
    /\ last.err = "none"
    /\ Len(last.pre.lines) = 2
    /\ last.pre.lines[1] = JsonLine([type |-> "note"])
    /\ Len(last.result.entities) = 1
    /\ file = last.pre

\* C12, no file: it is still absent after a read
C12_WitnessAbsent ==
    /\ last.op = "searchNodes"
    /\ ~last.pre.exists
    /\ ~file.exists

\* two characters are the same letter, in either case
SameLetter(c, d) ==
    \/ c = d
    \/ {c, d} \in { {"a", "A"}, {"x", "X"}, {"y", "Y"}, {"t", "T"}, {"r", "R"} }

\* q occurs in s, letter for letter, whatever the case of either
ContainsIgnoringCase(s, q) ==
    \E k \in 0..(Len(s) - Len(q)) :
        \A i \in 1..Len(q) : SameLetter(s[k + i], q[i])

\* C13: searchNodes returns, in stored order, exactly the entities whose
\* name, entityType or some observation contains the query, the case of the
\* letters of the query and of the stored text being ignored.
C13_SearchMatchRule ==
    (last.op = "searchNodes" /\ last.err = "none")
    => last.result.entities =
          SelectSeq(before.entities,
                    LAMBDA e :
                       \/ ContainsIgnoringCase(e.name, last.args)
                       \/ ContainsIgnoringCase(e.entityType, last.args)
                       \/ \E i \in 1..Len(e.observations) :
                             ContainsIgnoringCase(e.observations[i], last.args))

\* the case of C13: of two stored entities the second only is returned, for
\* a lower-case query found inside its observation "xY"
C13_Witness ==
    /\ last.op = "searchNodes"
    /\ last.err = "none"
    /\ last.args = <<"y">>
    /\ Len(before.entities) = 2
    /\ before.entities[1].observations = <<>>
    /\ before.entities[2].observations = << <<"x", "Y">> >>
    /\ last.result.entities = <<before.entities[2]>>

\* C13, an upper-case query for lower-case stored text, and a query that
\* matches every entity by its name
C13_WitnessUpperQuery ==
    /\ last.op = "searchNodes"
    /\ last.args = <<"X">>
    /\ Len(before.entities) = 2
    /\ Len(last.result.entities) = 1

C13_WitnessByName ==
    /\ last.op = "searchNodes"
    /\ last.args = <<"A">>
    /\ Len(before.entities) = 2
    /\ before.entities[1].name # before.entities[2].name
    /\ last.result.entities = before.entities

DeleteOps == {"deleteEntities", "deleteObservations", "deleteRelations"}

\* the items of a deleteObservations argument whose entity is in the graph,
\* each with the strings that the entity has
ExistingDeletions(deletions, graph) ==
    LET kept == SelectSeq(deletions,
                          LAMBDA d : d.entityName \in namesOf(graph.entities))
    IN  [k \in 1..Len(kept) |->
           [entityName |-> kept[k].entityName,
            observations |->
               SelectSeq(kept[k].observations,
                         LAMBDA o :
                            includes(graph.entities[
                                        findIndex(graph.entities,
                                                  kept[k].entityName)].observations,
                                     o))]]

\* the triples of a deleteRelations argument that the graph has
ExistingTriples(relations, graph) ==
    SelectSeq(relations,
              LAMBDA r : \E i \in 1..Len(graph.relations) :
                            sameTriple(graph.relations[i], r))

\* the names of a deleteEntities argument that an entity of the graph has
ExistingNames(entityNames, graph) ==
    SelectSeq(entityNames, LAMBDA n : n \in namesOf(graph.entities))

\* the names that an entity has or that a relation has as from or to
NamesInUse(entityNames, graph) ==
    SelectSeq(entityNames,
              LAMBDA n : \/ n \in namesOf(graph.entities)
                         \/ \E i \in 1..Len(graph.relations) :
                               \/ graph.relations[i].from = n
                               \/ graph.relations[i].to = n)

\* C14 as stated: a delete call never fails, it writes the file, and the file
\* is the one the call would write had it listed the existing entities,
\* observations or triples only.
C14_MissingTargetsChangeNothing ==
    last.op \in DeleteOps
    => (/\ last.err = "none"
        /\ file.exists
        /\ file = Outcome(last.op,
                          CASE last.op = "deleteEntities" ->
                                  ExistingNames(last.args, before)
                            [] last.op = "deleteObservations" ->
                                  ExistingDeletions(last.args, before)
                            [] last.op = "deleteRelations" ->
                                  ExistingTriples(last.args, before),
                          last.pre).file)

\* C14 amended: the same, but a name listed in deleteEntities that no entity
\* has still removes the relations that have it as from or to.
C14_MissingTargetsExceptCascade ==
    last.op \in DeleteOps
    => (/\ last.err = "none"
        /\ file.exists
        /\ file = Outcome(last.op,
                          CASE last.op = "deleteEntities" ->
                                  NamesInUse(last.args, before)
                            [] last.op = "deleteObservations" ->
                                  ExistingDeletions(last.args, before)
                            [] last.op = "deleteRelations" ->
                                  ExistingTriples(last.args, before),
                          last.pre).file)

\* the case of C14: the first item of a deleteObservations batch named a
\* missing entity, the second removed an observation of an existing one
C14_Witness ==
    /\ last.op = "deleteObservations"
    /\ last.err = "none"
    /\ Len(last.args) = 2
    /\ last.args[1].entityName \notin namesOf(before.entities)
    /\ Len(before.entities) = 1
    /\ before.entities[1].name = last.args[2].entityName
    /\ Len(before.entities[1].observations) = 1
    /\ persisted.entities[1].observations = <<>>

\* C15: starting from an absent store, after any sequence of operations no
\* persisted entity has the same string twice among its observations.
C15_ObservationsUnique ==
    \A i \in 1..Len(persisted.entities) :
        NoDuplicates(persisted.entities[i].observations)

\* the stored records without their type key
EntitiesFields(entities) ==
    [i \in 1..Len(entities) |-> EntityFields(entities[i])]

RelationsFields(relations) ==
    [i \in 1..Len(relations) |-> RelationFields(relations[i])]

\* C16: createEntities (createRelations) returns the candidates, in input
\* order, whose name (triple) the loaded graph does not have, and the
\* persisted collection is the loaded collection, unchanged and in order,
\* followed by the returned items; the other collection is unchanged.
C16_AppendOnly ==
    /\ (last.op = "createEntities" /\ last.err = "none")
         => (/\ last.result =
                   SelectSeq(last.args,
                             LAMBDA e : e.name \notin namesOf(before.entities))
             /\ EntitiesFields(persisted.entities) =
                   EntitiesFields(before.entities) \o last.result
             /\ persisted.relations = before.relations)
    /\ (last.op = "createRelations" /\ last.err = "none")
         => (/\ last.result =
                   SelectSeq(last.args,
                             LAMBDA r : RelationFields(r) \notin
                                { RelationFields(before.relations[i]) :
                                     i \in 1..Len(before.relations) })
             /\ RelationsFields(persisted.relations) =
                   RelationsFields(before.relations) \o last.result
             /\ persisted.entities = before.entities)

\* the case of C16: of two candidates the first has the name of a stored
\* entity and other observations, the second is new; the stored entity is
\* kept as it was and the second candidate follows it
C16_Witness ==
    /\ last.op = "createEntities"
    /\ last.err = "none"
    /\ Len(last.args) = 2
    /\ Len(before.entities) = 1
    /\ last.args[1].name = before.entities[1].name
    /\ last.args[1].observations # before.entities[1].observations
    /\ last.result = <<last.args[2]>>
    /\ Len(persisted.entities) = 2
    /\ persisted.entities[1] = before.entities[1]

\* C16, createRelations: a stored triple and a new one in one batch
C16_WitnessRelations ==
    /\ last.op = "createRelations"
    /\ Len(last.args) = 2
    /\ Len(before.relations) = 1
    /\ last.result = <<last.args[1]>>
    /\ Len(persisted.relations) = 2
    /\ persisted.relations[1] = before.relations[1]

\* the graph the synchronous part of a mutating method leaves in memory
StepGraph(op, args, graph) ==
    CASE op = "createEntities" -> createEntitiesStep(graph, args).graph
      [] op = "createRelations" -> createRelationsStep(graph, args).graph
      [] op = "addObservations" -> addObservationsStep(graph, args).graph
      [] op = "deleteEntities" -> deleteEntitiesStep(graph, args).graph
      [] op = "deleteObservations" -> deleteObservationsStep(graph, args).graph
      [] op = "deleteRelations" -> deleteRelationsStep(graph, args).graph

\* C17: after a mutating call that completed without error the file exists
\* and loads to the graph the operation left, also when nothing changed.
C17_MutationsAlwaysWrite ==
    (last.op \in MutatingOps /\ last.err = "none")
    => (/\ file.exists
        /\ loadGraph(file).err = "none"
        /\ LET graph == StepGraph(last.op, last.args, before)
           IN  /\ EntitiesFields(persisted.entities) = EntitiesFields(graph.entities)
               /\ RelationsFields(persisted.relations) = RelationsFields(graph.relations))

\* the case of C17: an empty batch with no file; the file now exists and
\* holds the empty graph
C17_Witness ==
    /\ last.op \in MutatingOps
    /\ last.args = <<>>
    /\ ~last.pre.exists
    /\ last.err = "none"
    /\ file = EmptyFile

\* C17, a call that changes nothing on a file that has records
C17_WitnessNoChange ==
    /\ last.op = "createEntities"
    /\ Len(last.args) > 0
    /\ last.result = <<>>
    /\ last.pre.exists
    /\ file = last.pre

\* a relation one of whose ends is not the name of an entity
Dangles(r, graph) ==
    \/ r.from \notin namesOf(graph.entities)
    \/ r.to \notin namesOf(graph.entities)

\* C18: every candidate of createRelations is stored after the call, whether
\* or not its from and to name entities, and a call other than
\* deleteEntities and deleteRelations keeps every stored relation, dangling
\* or not.
C18_NoReferentialIntegrity ==
    /\ (last.op = "createRelations" /\ last.err = "none")
         => \A k \in 1..Len(last.args) :
               RelationFields(last.args[k]) \in
                  { RelationFields(persisted.relations[i]) :
                       i \in 1..Len(persisted.relations) }
    /\ (last.op \notin {"none", "deleteEntities", "deleteRelations"})
         => (/\ Len(persisted.relations) >= Len(before.relations)
             /\ \A i \in 1..Len(before.relations) :
                   persisted.relations[i] = before.relations[i])

\* the case of C18: a relation between names that no entity has was created
\* and is stored
C18_Witness ==
    /\ last.op = "createRelations"
    /\ last.err = "none"
    /\ before.entities = <<>>
    /\ Len(last.result) = 1
    /\ Dangles(last.result[1], persisted)
    /\ Len(persisted.relations) = Len(before.relations) + 1

\* C18, a stored dangling relation outlives a call that deletes observations
C18_WitnessKept ==
    /\ last.op = "deleteObservations"
    /\ Len(last.args) > 0
    /\ Len(before.relations) = 1
    /\ Dangles(before.relations[1], before)
    /\ persisted.relations = before.relations

\* a well-formed record whose type is neither entity nor relation
OtherRecord(line) ==
    /\ line.text = "json"
    /\ line.item.type \notin {"entity", "relation"}

HasOtherRecord(f) ==
    /\ f.exists
    /\ \E i \in 1..Len(f.lines) : OtherRecord(f.lines[i])

\* the file without its records of other types
WithoutOtherRecords(f) ==
    [f EXCEPT !.lines = SelectSeq(@, LAMBDA line : ~OtherRecord(line))]

\* C20: a record of an unrecognised type takes no part in any call (every
\* call answers as it would were the record not in the file), a mutating
\* call that succeeds leaves no such record in the file, and a read-only
\* call leaves the file, the record included, as it was.
C20_UnknownTypeDroppedAndErased ==
    (last.op # "none" /\ HasOtherRecord(last.pre))
    => (/\ LET out == Outcome(last.op, last.args, WithoutOtherRecords(last.pre))
           IN  /\ last.err = out.err
               /\ last.result = out.result
        /\ (last.op \in MutatingOps /\ last.err = "none") => ~HasOtherRecord(file)
        /\ last.op \in ReadOps => (file = last.pre /\ HasOtherRecord(file)))

\* the case of C20: the file held an entity and a record of another type;
\* a mutating call succeeded, the entity is still stored and the other
\* record is gone
C20_Witness ==
    /\ last.op \in MutatingOps
    /\ last.err = "none"
    /\ HasOtherRecord(last.pre)
    /\ Len(before.entities) = 1
    /\ Len(persisted.entities) >= 1
    /\ ~HasOtherRecord(file)

\* C20, a read: the graph returned is the entity alone, the record stays
C20_WitnessRead ==
    /\ last.op = "readGraph"
    /\ last.err = "none"
    /\ HasOtherRecord(last.pre)
    /\ Len(last.result.entities) = 1
    /\ last.result.relations = <<>>
    /\ HasOtherRecord(file)

\* what the items before item k have added to the entity of the given name
RECURSIVE AddedBefore(_, _, _, _)
AddedBefore(observations, results, name, k) ==
    IF k <= 1 THEN <<>>
    ELSE AddedBefore(observations, results, name, k - 1)
         \o (IF observations[k - 1].entityName = name
             THEN results[k - 1].addedObservations
             ELSE <<>>)

\* the observations of the entity item k names, at the moment item k is
\* processed: those it had when the call began, then what earlier items added
AtItem(k) ==
    LET name == last.args[k].entityName
    IN  before.entities[findIndex(before.entities, name)].observations
        \o AddedBefore(last.args, last.result, name, k)

\* C19: in a completed addObservations, item k reports its own entityName
\* and, as addedObservations, its contents, in their order, that the entity
\* did not have at the moment item k was processed (so nothing an earlier
\* item of the batch added to that entity); afterwards the entity's list is
\* the list it had, followed by what the items added, item by item.
C19_ItemsInOrder ==
    (last.op = "addObservations" /\ last.err = "none")
    => (/\ Len(last.result) = Len(last.args)
        /\ \A k \in 1..Len(last.args) :
              /\ last.result[k].entityName = last.args[k].entityName
              /\ last.result[k].addedObservations =
                    SelectSeq(last.args[k].contents,
                              LAMBDA content : ~includes(AtItem(k), content))
        /\ Len(persisted.entities) = Len(before.entities)
        /\ \A i \in 1..Len(before.entities) :
              persisted.entities[i].observations =
                 before.entities[i].observations
                 \o (IF i = findIndex(before.entities, before.entities[i].name)
                     THEN AddedBefore(last.args, last.result,
                                      before.entities[i].name, Len(last.args) + 1)
                     ELSE <<>>))

\* the case of C19: two items for one entity that had an observation; the
\* first adds a string, the second names it again
C19_Witness ==
    /\ last.op = "addObservations"
    /\ last.err = "none"
    /\ Len(last.args) = 2
    /\ last.args[1].entityName = last.args[2].entityName
    /\ Len(AtItem(1)) = 1
    /\ Len(last.result[1].addedObservations) = 1
    /\ last.args[2].contents = last.result[1].addedObservations
    /\ last.result[2].addedObservations = <<>>

\* C19, order: one item adds two different strings to an entity that has none
C19_WitnessOrder ==
    /\ last.op = "addObservations"
    /\ last.err = "none"
    /\ Len(last.args) = 1
    /\ Len(before.entities) = 1
    /\ before.entities[1].observations = <<>>
    /\ last.args[1].contents = << <<"z">>, <<"x">> >>
    /\ persisted.entities[1].observations = << <<"z">>, <<"x">> >>

\* the strings that the items of a deleteObservations list for a name
Listed(deletions, name) ==
    UNION { { deletions[k].observations[j] :
                 j \in 1..Len(deletions[k].observations) } :
            k \in { k \in 1..Len(deletions) : deletions[k].entityName = name } }

\* C21: a completed deleteRelations leaves the entities as they were and, of
\* the relations, exactly those that equal no listed triple in from, to and
\* relationType, in their order; a completed deleteObservations leaves the
\* relations as they were and every entity in its place with its name and
\* entityType, removes from the entity found for a listed name the strings
\* listed for that name and no other string, and leaves the observations
\* of every other entity as they were.
C21_NarrowDeletesFrame ==
    /\ (last.op = "deleteRelations" /\ last.err = "none")
         => (/\ persisted.entities = before.entities
             /\ persisted.relations =
                   SelectSeq(before.relations,
                             LAMBDA r : RelationFields(r) \notin
                                { RelationFields(last.args[k]) :
                                     k \in 1..Len(last.args) }))
    /\ (last.op = "deleteObservations" /\ last.err = "none")
         => (/\ persisted.relations = before.relations
             /\ Len(persisted.entities) = Len(before.entities)
             /\ \A i \in 1..Len(before.entities) :
                   LET e == before.entities[i]
                   IN  /\ persisted.entities[i].name = e.name
                       /\ persisted.entities[i].entityType = e.entityType
                       /\ persisted.entities[i].observations =
                            IF i = findIndex(before.entities, e.name)
                            THEN SelectSeq(e.observations,
                                    LAMBDA o : o \notin Listed(last.args, e.name))
                            ELSE e.observations)

\* the case of C21, deleteObservations: an entity had two different strings
\* and one of them was listed; the other one is what it has now
C21_Witness ==
    /\ last.op = "deleteObservations"
    /\ last.err = "none"
    /\ Len(before.entities) = 1
    /\ before.entities[1].observations = << <<"x">>, <<"z">> >>
    /\ Listed(last.args, before.entities[1].name) = { <<"x">> }
    /\ persisted.entities[1].observations = << <<"z">> >>

\* C21, deleteRelations: two stored triples differ in the case of from only,
\* one is listed and removed, the other stays
C21_WitnessRelations ==
    /\ last.op = "deleteRelations"
    /\ last.err = "none"
    /\ Len(before.relations) = 2
    /\ toLowerCase(before.relations[1].from) = toLowerCase(before.relations[2].from)
    /\ Len(last.args) = 1
    /\ RelationFields(last.args[1]) = RelationFields(before.relations[2])
    /\ persisted.relations = <<before.relations[1]>>

\* C21, deleteObservations naming an entity whose name differs only in case
\* from that of the entity that has the listed string: the string stays
C21_WitnessOtherEntity ==
    /\ last.op = "deleteObservations"
    /\ last.err = "none"
    /\ Len(before.entities) = 2
    /\ before.entities[2].observations = << <<"x">> >>
    /\ Len(last.args) = 1
    /\ last.args[1].entityName = before.entities[1].name
    /\ last.args[1].observations = << <<"x">> >>
    /\ persisted.entities[2].observations = << <<"x">> >>

\* C21, deleteObservations beside a relation: the string goes, the relation
\* stays
C21_WitnessRelationKept ==
    /\ last.op = "deleteObservations"
    /\ last.err = "none"
    /\ Len(before.entities) = 1
    /\ Len(before.entities[1].observations) = 1
    /\ Len(before.relations) = 1
    /\ persisted.entities[1].observations = <<>>
    /\ persisted.relations = before.relations

====
